---- MODULE Spec2Model ----
(***************************************************************************)
(* Model of the client resource table (components/resources/               *)
(* client-resource-table.tsx): the React state of one mounted              *)
(* ClientResourceTable, the closures its handlers capture at render time,  *)
(* the list/update requests it has in flight, and the hosted service that  *)
(* answers them.  Every action is one event-loop task of the component: a  *)
(* user event, an effect run, a debounce timer firing, or the continuation *)
(* of an awaited request.  State updates queued inside one task are        *)
(* batched by React and are therefore applied together.                    *)
(***************************************************************************)
EXTENDS Integers, Sequences, FiniteSets, TLC

(***************************************************************************)
(* Bounds of the exploration.                                              *)
(***************************************************************************)
MaxLists == 4
MaxEdits == 1
MaxTypes == 3
MaxFairTypes == 1

(***************************************************************************)
(* Program constants.                                                      *)
(***************************************************************************)
PageLimit == 20

\* Texts the user can have in the search box, values of the sessionToken
\* prop (empty: no session), one of the field ids of the crmOpportunity
\* model, the values a cell commits, and the ids of the records the service
\* holds.
SearchTexts == {"", "a"}
SessionTokens == {"", "tok"}
FieldIds == {"name"}
EditValues == {"y"}
RecordIds == 1..3

\* JavaScript undefined / null as values of `cursor` and `next`, shaped like
\* a cursor token so that the three can be compared; the omitted q
\* parameter; a missing key or an unarmed timer.
Undefined == [q |-> "<no token>", page |-> 0]
Null == [q |-> "<null token>", page |-> 0]
NoQ == "<omitted>"
Absent == "<absent>"

(***************************************************************************)
(* The hosted service.  Records are paged per search term; a cursor token  *)
(* names the term it was issued under and the page it resumes at.  The     *)
(* record ids of the pages of one search term are pairwise distinct.       *)
(***************************************************************************)
ServicePages(q) ==
    IF q = NoQ THEN << <<1>>, <<2>> >> ELSE << <<2>>, <<3>> >>

ServiceRecord(store, id) ==
    [id |-> id, fields |-> store[id], top |-> [f \in FieldIds |-> Absent]]

\* Index (from 0) of the page a list request resumes at.
ServicePageIndex(c) == IF c = Undefined THEN 0 ELSE c.page

\* data of list({q, cursor}) on success
ServiceData(store, q, c) ==
    LET pages == ServicePages(q)
        k == ServicePageIndex(c) + 1
    IN  IF k <= Len(pages)
        THEN [i \in 1..Len(pages[k]) |-> ServiceRecord(store, pages[k][i])]
        ELSE << >>

\* the values `next` may take in the response to list({q, cursor}): a token
\* while a further page exists, otherwise null or absent.
ServiceNext(q, c) ==
    LET k == ServicePageIndex(c) + 1
    IN  IF k < Len(ServicePages(q))
        THEN {[q |-> q, page |-> k]}
        ELSE {Null, Undefined}

(***************************************************************************)
(* Pure helpers of the component.                                          *)
(***************************************************************************)
\* q: debouncedSearch.length > 0 ? debouncedSearch : undefined
QParam(s) == IF s # "" THEN s ELSE NoQ

\* cursor: isLoadMore ? cursor : undefined, with `cursor` the value captured
\* by the memoised loadResources closure
CurrentCursor(isLoadMore, captured) ==
    IF isLoadMore THEN captured ELSE Undefined

\* setRows(prev => [...prev, ...data]) / setRows(data)
LoadedRowsReplacing(isLoadMore, prev, data) == data

LoadedRows(isLoadMore, prev, data) == IF isLoadMore THEN prev \o data ELSE data

\* setCursor(next): the token as received.
NextCursorAsReceived(next) == next

\* setCursor(next || undefined)
NextCursor(next) == IF next = Null \/ next = Undefined THEN Undefined ELSE next

\* setHasMore(next !== null)
NextHasMore(next) == next # Null

\* { ...row, [columnId]: value }
OptimisticRow(row, columnId, value) == [row EXCEPT !.top[columnId] = value]

\* { ...row, fields: { ...row.fields, [columnId]: value } }
ConfirmedRow(row, columnId, value) == [row EXCEPT !.fields[columnId] = value]

\* prev.map((row) => row.id === rowId ? patch(row) : row)
OptimisticRows(prev, rowId, columnId, value) ==
    [i \in 1..Len(prev) |->
        IF prev[i].id = rowId THEN OptimisticRow(prev[i], columnId, value)
        ELSE prev[i]]

ConfirmedRows(prev, rowId, columnId, value) ==
    [i \in 1..Len(prev) |->
        IF prev[i].id = rowId THEN ConfirmedRow(prev[i], columnId, value)
        ELSE prev[i]]

\* const value = row.fields[column.id]
DisplayedValue(row, columnId) == row.fields[columnId]

VARIABLES
    sessionToken,     \* prop
    mounted,          \* the mount effects have run
    search,           \* useState("")
    debouncedSearch,  \* useState("")
    rows,             \* useState([])
    cursor,           \* useState(undefined)
    hasMore,          \* useState(true)
    loading,          \* useState(false)
    loadingMore,      \* useState(false)
    initialLoad,      \* useState(true)
    pending,          \* argument of the armed debounce timer, or Absent
    capCursor,        \* `cursor` as captured by the memoised loadResources
    store,            \* the service's records: id -> field -> value
    inflight,         \* the requests awaiting an outcome
    nLists,           \* number of list requests issued so far
    nUpdates,         \* number of update requests issued so far
    typed,            \* number of keystrokes so far
    ev                \* the task that produced this state

vars == <<sessionToken, mounted, search, debouncedSearch, rows, cursor, hasMore,
          loading, loadingMore, initialLoad, pending, capCursor, store,
          inflight, nLists, nUpdates, typed, ev>>

\* The column descriptors of the table, explored on their own (ColumnsSpec).
VARIABLES
    allColumns,       \* column types of the array built by the latest render
    closureColumns,   \* column types of the array the memoised loadResources
                      \* captured
    fetched           \* the items of the row list (the last one is the
                      \* latest batch)

columnVars == <<allColumns, closureColumns, fetched>>

\* One mounted EditableCell (components/resources/editable-cell.tsx),
\* explored on its own (CellSpec).
VARIABLES
    cellType,         \* prop type
    cellValue,        \* prop value
    isEditing,        \* useState(false)
    editValue,        \* useState(value)
    commits,          \* the onUpdate calls whose promise is still pending
    nCommits,         \* number of onUpdate calls so far
    discarded,        \* the edit value the latest Escape threw away
    cellEv            \* the task that produced this state

cellVars == <<cellType, cellValue, isEditing, editValue, commits, nCommits,
              discarded, cellEv>>

\* The navigation shell: AppSidebar and Topbar, mounted once by the root
\* layout, and the router (NavSpec).  A path is the sequence of its segments:
\* "/" is <<"">>, "/server/hubspot" is <<"server", "hubspot">>.
VARIABLES
    pathname,             \* usePathname()
    previous,             \* the history entry before the current one
    selectedConnectorId,  \* useState(null) of AppSidebar
    isClientSide,         \* useState(true) of Topbar
    pendingPush,          \* the navigation the router has not committed yet
    navMounted,           \* the mount effects have run
    navEv                 \* the task that produced this state

navVars == <<pathname, previous, selectedConnectorId, isClientSide,
             pendingPush, navMounted, navEv>>

\* The server side: the process environment, the module morph.ts, and the
\* page (a server component) rendering the current request (PageSpec).
VARIABLES
    publicKey,        \* process.env.NEXT_PUBLIC_MORPH_PUBLIC_KEY
    secretKey,        \* process.env.MORPH_SECRET_KEY
    morph,            \* the module morph.ts: not evaluated yet, failed, or
                      \* exporting the client
    page,             \* the page being rendered and its route parameters
    pagePc,           \* "idle", the call the page awaits, or "done"
    calls,            \* the service calls of this render, in order
    outcome,          \* "none", "rendered", "notFound" or "error"
    rendered,         \* what the response renders
    pageEv            \* the task that produced this state

pageVars == <<publicKey, secretKey, morph, page, pagePc, calls, outcome,
              rendered, pageEv>>

\* The server action the connection page hands to the Connect widget, and
\* the custom fields of the connection it works on (CallbackSpec).
VARIABLES
    customFields,     \* the service's custom fields of genericCompany
    callbacks         \* the invocations of `authorized`: where each stands,
                      \* what listFields returned to it, and whether it has
                      \* invoked createField

callbackVars == <<customFields, callbacks>>

\* What the actions of each component leave alone.
besidesTable == <<columnVars, cellVars, navVars, pageVars, callbackVars>>
besidesColumns == <<vars, cellVars, navVars, pageVars, callbackVars>>
besidesCell == <<vars, columnVars, navVars, pageVars, callbackVars>>
besidesNav == <<vars, columnVars, cellVars, pageVars, callbackVars>>
besidesPage == <<vars, columnVars, cellVars, navVars, callbackVars>>
besidesCallbacks == <<vars, columnVars, cellVars, navVars>>
allVars == <<vars, columnVars, cellVars, navVars, pageVars, callbackVars>>

NoRow ==
    [id |-> 0, fields |-> [f \in FieldIds |-> Absent],
     top |-> [f \in FieldIds |-> Absent]]

\* A request.  kind and nth (the ordinal among the requests of its kind)
\* identify it; q, cursor and limit are the arguments of list(); rowId, field
\* and value those of update().  term is the debouncedSearch of the render
\* whose closure issued it.  A reload issued by a failed update names that
\* update in cause and keeps its rowId, field and preRow (the edited row
\* before the optimistic patch).  alone marks a request issued by the load
\* effect while nothing else was in flight.
NoRequest ==
    [kind |-> "none", nth |-> 0, isLoadMore |-> FALSE, q |-> NoQ,
     cursor |-> Undefined, limit |-> 0, rowId |-> 0, field |-> Absent,
     value |-> Absent, term |-> "", cause |-> 0, preRow |-> NoRow,
     alone |-> FALSE]

ListRequest(isLoadMore, term, captured) ==
    [NoRequest EXCEPT !.kind = "list", !.nth = nLists + 1,
                      !.isLoadMore = isLoadMore, !.q = QParam(term),
                      !.cursor = CurrentCursor(isLoadMore, captured),
                      !.limit = PageLimit, !.term = term]

UpdateRequest(rowId, columnId, value, term, preRow) ==
    [NoRequest EXCEPT !.kind = "update", !.nth = nUpdates + 1,
                      !.rowId = rowId, !.field = columnId, !.value = value,
                      !.term = term, !.preRow = preRow]

ReloadRequest(u) ==
    [ListRequest(FALSE, u.term, Undefined) EXCEPT
        !.cause = u.nth, !.rowId = u.rowId, !.field = u.field,
        !.value = u.value, !.preRow = u.preRow]

\* type: the task; req: kind of the request it issued, resp: kind of the
\* request whose outcome it handled ("none" if none); isLoadMore: whether
\* that request is a load-more; toast: title of the notification it showed;
\* data, next: the list response it applied.
Event(type, req, resp, isLoadMore, toast, data, next) ==
    [type |-> type, req |-> req, resp |-> resp, isLoadMore |-> isLoadMore,
     toast |-> toast, data |-> data, next |-> next]

Quiet(type) == Event(type, "none", "none", FALSE, Absent, << >>, Undefined)

TableInit ==
    /\ sessionToken \in SessionTokens
    /\ mounted = FALSE
    /\ search = ""
    /\ debouncedSearch = ""
    /\ rows = << >>
    /\ cursor = Undefined
    /\ hasMore = TRUE
    /\ loading = FALSE
    /\ loadingMore = FALSE
    /\ initialLoad = TRUE
    /\ pending = Absent
    /\ capCursor = Undefined
    /\ store = [id \in RecordIds |-> [f \in FieldIds |-> "x"]]
    /\ inflight = {}
    /\ nLists = 0
    /\ nUpdates = 0
    /\ typed = 0
    /\ ev = Quiet("init")

\* loadResources(isLoadMore) up to its await: raise the loading flag and
\* send the list request.  done: the requests whose outcome this task
\* handled.
LoadResources(req, done) ==
    /\ nLists < MaxLists
    /\ IF req.isLoadMore
       THEN loadingMore' = TRUE /\ UNCHANGED loading
       ELSE loading' = TRUE /\ UNCHANGED loadingMore
    /\ inflight' = (inflight \ done) \cup {req}
    /\ nLists' = nLists + 1

(***************************************************************************)
(* useEffect(..., [sessionToken, debouncedSearch, loadResources]): reset   *)
(* rows, cursor and hasMore and call loadResources() of the render whose   *)
(* effective search term is `term`.                                        *)
(***************************************************************************)
LoadEffectKeepingRows(type, term) ==
    /\ rows' = rows
    /\ cursor' = Undefined
    /\ hasMore' = TRUE
    /\ LoadResources([ListRequest(FALSE, term, capCursor')
                         EXCEPT !.alone = (inflight = {})], {})
    /\ ev' = Event(type, "list", "none", FALSE, Absent, << >>, Undefined)

LoadEffect(type, term) ==
    /\ rows' = << >>
    /\ cursor' = Undefined
    /\ hasMore' = TRUE
    /\ LoadResources([ListRequest(FALSE, term, capCursor')
                         EXCEPT !.alone = (inflight = {})], {})
    /\ ev' = Event(type, "list", "none", FALSE, Absent, << >>, Undefined)

\* The mount effects with the load effect's `if (sessionToken)` dropped.
MountWithoutSessionCheck ==
    /\ ~mounted
    /\ mounted' = TRUE
    /\ pending' = search
    /\ capCursor' = cursor
    /\ LoadEffect("mount", debouncedSearch)
    /\ UNCHANGED besidesTable
    /\ UNCHANGED <<sessionToken, search, debouncedSearch, initialLoad, store,
                   nUpdates, typed>>

\* First commit: both effects run.  The debounce timer is armed with the
\* initial search text; loadResources of the first render captured the
\* initial cursor.
Mount ==
    /\ ~mounted
    /\ mounted' = TRUE
    /\ pending' = search
    /\ capCursor' = cursor
    /\ IF sessionToken # ""
       THEN LoadEffect("mount", debouncedSearch)
       ELSE /\ UNCHANGED <<rows, cursor, hasMore, loading, loadingMore,
                           inflight, nLists>>
            /\ ev' = Quiet("mount")
    /\ UNCHANGED besidesTable
    /\ UNCHANGED <<sessionToken, search, debouncedSearch, initialLoad, store,
                   nUpdates, typed>>

\* A search input without debounce: every keystroke sets the effective term
\* and runs the load effect.
TypeSearchUndebounced(v) ==
    /\ mounted
    /\ sessionToken # ""
    /\ v # search
    /\ typed < MaxTypes
    /\ search' = v
    /\ pending' = Absent
    /\ debouncedSearch' = v
    /\ typed' = typed + 1
    /\ capCursor' = cursor
    /\ LoadEffect("type", v)
    /\ UNCHANGED besidesTable
    /\ UNCHANGED <<sessionToken, mounted, initialLoad, store, nUpdates>>

\* onChange of the search input: setSearch(e.target.value); the effect on
\* [search] re-arms the debounce timer with the new text.
TypeSearch(v) ==
    /\ mounted
    /\ sessionToken # ""
    /\ v # search
    /\ typed < MaxTypes
    /\ search' = v
    /\ pending' = v
    /\ typed' = typed + 1
    /\ ev' = Quiet("type")
    /\ UNCHANGED besidesTable
    /\ UNCHANGED <<sessionToken, mounted, debouncedSearch, rows, cursor,
                   hasMore, loading, loadingMore, initialLoad, capCursor,
                   store, inflight, nLists, nUpdates>>

\* The debounce timer fires: setDebouncedSearch(value).  When the effective
\* term changes, the component re-renders, loadResources is re-created
\* (deps [debouncedSearch, toast]; toast is the module-level function of the
\* toast hook, whose identity never changes) and captures the cursor of that
\* render, and the load effect runs.
DebounceFire ==
    /\ mounted
    /\ pending # Absent
    /\ pending' = Absent
    /\ debouncedSearch' = pending
    /\ IF pending # debouncedSearch
       THEN /\ capCursor' = cursor
            /\ IF sessionToken # ""
               THEN LoadEffect("debounce", pending)
               ELSE /\ UNCHANGED <<rows, cursor, hasMore, loading,
                                   loadingMore, inflight, nLists>>
                    /\ ev' = Quiet("debounce")
       ELSE /\ UNCHANGED <<capCursor, rows, cursor, hasMore, loading,
                           loadingMore, inflight, nLists>>
            /\ ev' = Quiet("debounce")
    /\ UNCHANGED besidesTable
    /\ UNCHANGED <<sessionToken, mounted, search, initialLoad, store,
                   nUpdates, typed>>

\* Click on the "Load More" button, which is rendered while
\* hasMore && rows.length > 0 and enabled while !loadingMore && sessionToken.
HandleLoadMore ==
    /\ mounted
    /\ hasMore /\ Len(rows) > 0
    /\ ~loadingMore /\ sessionToken # ""
    /\ LoadResources(ListRequest(TRUE, debouncedSearch, capCursor), {})
    /\ ev' = Event("loadMore", "list", "none", TRUE, Absent, << >>, Undefined)
    /\ UNCHANGED besidesTable
    /\ UNCHANGED <<sessionToken, mounted, search, debouncedSearch, rows,
                   cursor, hasMore, initialLoad, pending, capCursor, store,
                   nUpdates, typed>>

\* A finally block that clears the flag of an initial load only.
LoadFinallyLoadingOnly ==
    /\ loading' = FALSE
    /\ UNCHANGED <<loadingMore, initialLoad>>

\* finally { setLoading(false); setLoadingMore(false); setInitialLoad(false) }
LoadFinally ==
    /\ loading' = FALSE
    /\ loadingMore' = FALSE
    /\ initialLoad' = FALSE

\* A success path that drops the response of a request issued under another
\* effective search term than the current one.
ListOkIfCurrent(r, next) ==
    /\ r \in inflight
    /\ r.kind = "list"
    /\ next \in ServiceNext(r.q, r.cursor)
    /\ LET data == ServiceData(store, r.q, r.cursor)
       IN  /\ rows' = IF r.term = debouncedSearch
                       THEN LoadedRows(r.isLoadMore, rows, data)
                       ELSE rows
           /\ ev' = Event("listOk", "none", "list", r.isLoadMore, Absent,
                          data, next)
    /\ cursor' = IF r.term = debouncedSearch THEN NextCursor(next) ELSE cursor
    /\ hasMore' = IF r.term = debouncedSearch THEN NextHasMore(next)
                  ELSE hasMore
    /\ LoadFinally
    /\ inflight' = inflight \ {r}
    /\ UNCHANGED besidesTable
    /\ UNCHANGED <<sessionToken, mounted, search, debouncedSearch, pending,
                   capCursor, store, nLists, nUpdates, typed>>

\* resources.list resolves with {data, next} for request r.
ListOk(r, next) ==
    /\ r \in inflight
    /\ r.kind = "list"
    /\ next \in ServiceNext(r.q, r.cursor)
    /\ LET data == ServiceData(store, r.q, r.cursor)
       IN  /\ rows' = LoadedRows(r.isLoadMore, rows, data)
           /\ ev' = Event("listOk", "none", "list", r.isLoadMore, Absent,
                          data, next)
    /\ cursor' = NextCursor(next)
    /\ hasMore' = NextHasMore(next)
    /\ LoadFinally
    /\ inflight' = inflight \ {r}
    /\ UNCHANGED besidesTable
    /\ UNCHANGED <<sessionToken, mounted, search, debouncedSearch, pending,
                   capCursor, store, nLists, nUpdates, typed>>

\* A failure path that also empties the row list.
ListFailClearing(r) ==
    /\ r \in inflight
    /\ r.kind = "list"
    /\ ev' = Event("listFail", "none", "list", r.isLoadMore,
                   "Error loading resources", << >>, Undefined)
    /\ LoadFinally
    /\ inflight' = inflight \ {r}
    /\ rows' = << >>
    /\ UNCHANGED besidesTable
    /\ UNCHANGED <<sessionToken, mounted, search, debouncedSearch, cursor,
                   hasMore, pending, capCursor, store, nLists, nUpdates,
                   typed>>

\* The failure paths of loadResources for request r: toast, then finally.
ListFail(r) ==
    /\ r \in inflight
    /\ r.kind = "list"
    /\ ev' = Event("listFail", "none", "list", r.isLoadMore,
                   "Error loading resources", << >>, Undefined)
    /\ LoadFinally
    /\ inflight' = inflight \ {r}
    /\ UNCHANGED besidesTable
    /\ UNCHANGED <<sessionToken, mounted, search, debouncedSearch, rows,
                   cursor, hasMore, pending, capCursor, store, nLists,
                   nUpdates, typed>>

\* resources.list resolves with {error}: if (error) { toast; return }
ListError(r) == ListFail(r)

\* resources.list rejects: catch { toast }
ListThrow(r) == ListFail(r)

\* A cell of row i, column columnId commits `value`: the optimistic patch
\* and the remote update.  Cells are rendered once the first load has
\* finished and rows is not empty.
HandleCellUpdate(i, columnId, value) ==
    /\ mounted
    /\ sessionToken # ""
    /\ ~initialLoad
    /\ i \in 1..Len(rows)
    /\ nUpdates < MaxEdits
    /\ rows' = OptimisticRows(rows, rows[i].id, columnId, value)
    /\ inflight' = inflight \cup
          {UpdateRequest(rows[i].id, columnId, value, debouncedSearch, rows[i])}
    /\ nUpdates' = nUpdates + 1
    /\ ev' = Event("edit", "update", "none", FALSE, Absent, << >>, Undefined)
    /\ UNCHANGED besidesTable
    /\ UNCHANGED <<sessionToken, mounted, search, debouncedSearch, cursor,
                   hasMore, loading, loadingMore, initialLoad, pending,
                   capCursor, store, nLists, typed>>

\* resources.update resolves without error for request u.
UpdateOk(u) ==
    /\ u \in inflight
    /\ u.kind = "update"
    /\ store' = [store EXCEPT ![u.rowId][u.field] = u.value]
    /\ rows' = ConfirmedRows(rows, u.rowId, u.field, u.value)
    /\ inflight' = inflight \ {u}
    /\ ev' = Event("updateOk", "none", "update", FALSE, "Value updated",
                   << >>, Undefined)
    /\ UNCHANGED besidesTable
    /\ UNCHANGED <<sessionToken, mounted, search, debouncedSearch, cursor,
                   hasMore, loading, loadingMore, initialLoad, pending,
                   capCursor, nLists, nUpdates, typed>>

\* resources.update resolves with {error}: toast and return.
UpdateError(u) ==
    /\ u \in inflight
    /\ u.kind = "update"
    /\ inflight' = inflight \ {u}
    /\ ev' = Event("updateError", "none", "update", FALSE,
                   "Error updating resource", << >>, Undefined)
    /\ UNCHANGED besidesTable
    /\ UNCHANGED <<sessionToken, mounted, search, debouncedSearch, rows,
                   cursor, hasMore, loading, loadingMore, initialLoad, pending,
                   capCursor, store, nLists, nUpdates, typed>>

\* resources.update rejects: the catch block calls the loadResources() the
\* handler captured when the cell committed, then toasts.
UpdateThrow(u) ==
    /\ u \in inflight
    /\ u.kind = "update"
    /\ LoadResources(ReloadRequest(u), {u})
    /\ ev' = Event("updateThrow", "list", "update", FALSE, "Update failed",
                   << >>, Undefined)
    /\ UNCHANGED besidesTable
    /\ UNCHANGED <<sessionToken, mounted, search, debouncedSearch, rows,
                   cursor, hasMore, initialLoad, pending, capCursor, store,
                   nUpdates, typed>>

(***************************************************************************)
(* The column descriptors of the client resource table and the type        *)
(* inference of loadResources.  A JavaScript value is its typeof and its   *)
(* text.                                                                   *)
(***************************************************************************)
MaxColumnRows == 2

ColumnFieldIds == {"name", "amount"}

JsNumber == [typeof |-> "number", text |-> "7"]
JsBoolean == [typeof |-> "boolean", text |-> "true"]
JsDateString == [typeof |-> "string", text |-> "2024-01-15"]
JsWord == [typeof |-> "string", text |-> "Ada"]
JsUndefined == [typeof |-> "undefined", text |-> ""]
JsZero == [typeof |-> "number", text |-> "0"]
JsValues == {JsNumber, JsZero, JsBoolean, JsDateString, JsWord, JsUndefined}

\* The fields of one fetched item: a name is a string, an amount anything.
ColumnItems ==
    {item \in [ColumnFieldIds -> JsValues] :
        item["name"] \in {JsWord, JsDateString}}

\* !isNaN(Date.parse(text))
DateParses(text) == text \in {"2024-01-15"}

\* if (typeof value === "number") column.type = "number"; else if boolean
\* ...; else if (a string that parses as a date) column.type = "date"
\* (the fetched JSON holds no Date objects)
InferType(type, value) ==
    IF value.typeof = "number" THEN "number"
    ELSE IF value.typeof = "boolean" THEN "boolean"
    ELSE IF value.typeof = "string" /\ DateParses(value.text) THEN "date"
    ELSE type

\* data.forEach((item) => modelDetails.fields.forEach((field) => ...)) on the
\* column descriptors cols
RECURSIVE InferColumns(_, _)
InferColumns(cols, data) ==
    IF data = << >> THEN cols
    ELSE InferColumns(
            [f \in ColumnFieldIds |->
                IF Head(data)[f].typeof # "undefined"
                THEN InferType(cols[f], Head(data)[f])
                ELSE cols[f]],
            Tail(data))

\* allColumns = fields.map((field) => ({ id, header, type: "text" }))
DefaultColumns == [f \in ColumnFieldIds |-> "text"]

\* The edit widget EditableCell renders for a column type.
EditWidget(type) ==
    CASE type = "select" -> "select"
      [] type = "date" -> "calendar"
      [] type = "boolean" -> "yes/no select"
      [] type = "number" -> "number input"
      [] OTHER -> "text input"

ColumnsInit ==
    /\ allColumns = DefaultColumns
    /\ closureColumns = DefaultColumns
    /\ fetched = << >>

\* The effective search term changes: the render re-creates loadResources,
\* which captures the array that render built, and the load effect empties
\* the row list.
ColumnsTermChange ==
    /\ fetched # << >>
    /\ allColumns' = DefaultColumns
    /\ closureColumns' = allColumns'
    /\ fetched' = << >>
    /\ UNCHANGED besidesColumns

\* A list response with items `data` is applied: the inference mutates the
\* descriptors of the array the closure captured, setRows stores the items,
\* and the re-render that displays them builds allColumns anew.
ColumnsFetchOk(isLoadMore, data) ==
    /\ isLoadMore => fetched # << >>
    /\ Len(LoadedRows(isLoadMore, fetched, data)) <= MaxColumnRows
    /\ closureColumns' = InferColumns(closureColumns, data)
    /\ fetched' = LoadedRows(isLoadMore, fetched, data)
    /\ allColumns' = DefaultColumns
    /\ UNCHANGED besidesColumns

ColumnsNext ==
    \/ ColumnsTermChange
    \/ \E isLoadMore \in BOOLEAN : \E item \in ColumnItems :
           ColumnsFetchOk(isLoadMore, <<item>>)

(***************************************************************************)
(* The editable cell.  Its parent passes value, type and onUpdate.  The    *)
(* onUpdate callback returns the promise of the parent's asynchronous      *)
(* handler, which settles when the remote update has completed.  A         *)
(* successful update makes the parent pass the committed value as the new  *)
(* value prop.  React does not deliver onBlur for an input that is         *)
(* unmounted while focused.                                                *)
(***************************************************************************)
MaxCommits == 2

CellTypes == {"text", "number", "select", "boolean", "date"}

JsString(text) == [typeof |-> "string", text |-> text]
JsFalse == [typeof |-> "boolean", text |-> "false"]
NoValue == [typeof |-> "none", text |-> ""]

\* The values the parent passes to a cell of a type.
CellValues(type) ==
    CASE type = "boolean" -> {JsBoolean, JsFalse}
      [] type = "date" -> {JsDateString, JsUndefined}
      [] type = "number" -> {JsNumber, JsUndefined}
      [] type = "select" -> {JsString("won"), JsString("lost")}
      [] OTHER -> {JsWord, JsString("Bob")}

\* e.target.value of the input
TypedTexts == {JsString("Bob"), JsString("8"), JsString("")}

\* A boolean selector that hands the option's string to onUpdate.
PickedValuesAsReported(type) ==
    CASE type = "boolean" -> {JsString("true"), JsString("false")}
      [] type = "date" -> {JsString("2024-02-01T00:00:00.000Z"), JsString("")}
      [] type = "select" -> {JsString("won"), JsString("lost")}
      [] OTHER -> {}

\* What the edit widget of a type hands to onUpdate when the user picks an
\* option: the option's value for a select, v === "true" for a boolean,
\* date?.toISOString() || "" for a date.
PickedValues(type) ==
    CASE type = "boolean" -> {JsBoolean, JsFalse}
      [] type = "date" -> {JsString("2024-02-01T00:00:00.000Z"), JsString("")}
      [] type = "select" -> {JsString("won"), JsString("lost")}
      [] OTHER -> {}

IsFreeText(type) == type \notin {"select", "date", "boolean"}

\* JavaScript truthiness of a value.
Truthy(v) ==
    ~ \/ v.typeof = "undefined"
      \/ v.typeof = "boolean" /\ v.text = "false"
      \/ v.typeof = "number" /\ v.text = "0"
      \/ v.typeof = "string" /\ v.text = ""

\* format(new Date(value), "PP")
FormatPP(text) ==
    CASE text = "2024-01-15" -> "Jan 15, 2024"
      [] text = "2024-02-01T00:00:00.000Z" -> "Feb 1, 2024"
      [] OTHER -> "<RangeError>"

\* The text of the cell in display state: displayValue by type (the table
\* passes no options, so a select falls back to the raw value), then
\* {displayValue || "-"}, of which React prints nothing for a boolean.
DisplayText(type, v) ==
    LET displayValue ==
            CASE type = "date" ->
                     JsString(IF Truthy(v) THEN FormatPP(v.text) ELSE "-")
              [] type = "boolean" ->
                     JsString(IF Truthy(v) THEN "Yes" ELSE "No")
              [] OTHER -> v
    IN  IF ~Truthy(displayValue) THEN "-"
        ELSE IF displayValue.typeof = "boolean" THEN ""
        ELSE displayValue.text

\* The options of the boolean selector, value -> label, and the option its
\* value prop selects: editValue ? "true" : "false"
BooleanOptions == [true |-> "Yes", false |-> "No"]

BooleanSelected(v) == IF Truthy(v) THEN "true" ELSE "false"

\* A pending onUpdate call.  awaited: handleSave waits for it before it
\* calls setIsEditing(false); open: the cell has been in editing state ever
\* since the call.
Commit(v, awaited, editing) ==
    [n |-> nCommits + 1, value |-> v, awaited |-> awaited, open |-> editing]

\* The pending calls after a task that leaves the cell editing or not.
Aged(cs, editing) == {[c EXCEPT !.open = c.open /\ editing] : c \in cs}

\* An effect that resets the edit value whether or not the cell is editing.
SyncedEditValueAlways(editing, v, kept) == v

\* useEffect(() => { if (!isEditing) setEditValue(value) }, [value,
\* isEditing]), run after the render that ends the task.
SyncedEditValue(editing, v, kept) == IF ~editing THEN v ELSE kept

CellStart(type, v) ==
    /\ cellType = type
    /\ cellValue = v
    /\ isEditing = FALSE
    /\ editValue = v
    /\ commits = {}
    /\ nCommits = 0
    /\ discarded = NoValue
    /\ cellEv = "init"

CellInit == \E type \in CellTypes : \E v \in CellValues(type) : CellStart(type, v)

\* Click on the cell in display state.
HandleStartEdit ==
    /\ ~isEditing
    /\ editValue' = cellValue
    /\ isEditing' = TRUE
    /\ cellEv' = "start"
    /\ UNCHANGED <<cellType, cellValue, commits, nCommits, discarded>>
    /\ UNCHANGED besidesCell

\* onChange of the input: setEditValue(e.target.value)
HandleChange(text) ==
    /\ isEditing /\ IsFreeText(cellType)
    /\ text # editValue
    /\ editValue' = text
    /\ cellEv' = "change"
    /\ UNCHANGED <<cellType, cellValue, isEditing, commits, nCommits,
                   discarded>>
    /\ UNCHANGED besidesCell

\* handleSave up to its await: onUpdate(editValue) is called and the cell
\* stays as it is until the promise settles.
HandleSave(type) ==
    /\ isEditing /\ IsFreeText(cellType)
    /\ nCommits < MaxCommits
    /\ commits' = commits \cup {Commit(editValue, TRUE, TRUE)}
    /\ nCommits' = nCommits + 1
    /\ cellEv' = type
    /\ UNCHANGED <<cellType, cellValue, isEditing, editValue, discarded>>
    /\ UNCHANGED besidesCell

\* onKeyDown with Enter
KeyEnter == HandleSave("enter")

\* onBlur of the input
Blur == HandleSave("blur")

\* A cancel that saves.
HandleCancelSaving ==
    /\ isEditing /\ IsFreeText(cellType)
    /\ nCommits < MaxCommits
    /\ isEditing' = FALSE
    /\ editValue' = cellValue
    /\ discarded' = editValue
    /\ commits' = Aged(commits, FALSE) \cup {Commit(editValue, FALSE, FALSE)}
    /\ nCommits' = nCommits + 1
    /\ cellEv' = "escape"
    /\ UNCHANGED <<cellType, cellValue>>
    /\ UNCHANGED besidesCell

\* onKeyDown with Escape: handleCancel
HandleCancel ==
    /\ isEditing /\ IsFreeText(cellType)
    /\ isEditing' = FALSE
    /\ editValue' = SyncedEditValue(FALSE, cellValue, editValue)
    /\ discarded' = editValue
    /\ commits' = Aged(commits, FALSE)
    /\ cellEv' = "escape"
    /\ UNCHANGED <<cellType, cellValue, nCommits>>
    /\ UNCHANGED besidesCell

\* onValueChange / onSelect of the select, boolean and date widgets, called
\* with the choice the widget reports: setEditValue(v); onUpdate(v);
\* setIsEditing(false).
HandlePick(v) ==
    /\ isEditing /\ ~IsFreeText(cellType)
    /\ v \in PickedValues(cellType)
    /\ nCommits < MaxCommits
    /\ isEditing' = FALSE
    /\ editValue' = SyncedEditValue(FALSE, cellValue, v)
    /\ commits' = Aged(commits, FALSE) \cup {Commit(v, FALSE, FALSE)}
    /\ nCommits' = nCommits + 1
    /\ cellEv' = "pick"
    /\ UNCHANGED <<cellType, cellValue, discarded>>
    /\ UNCHANGED besidesCell

\* The remote update of call c completes.  On success the parent passes the
\* committed value; then handleSave, if it awaited the call, continues with
\* setIsEditing(false).
CommitSettles(c, ok) ==
    /\ c \in commits
    /\ cellValue' = IF ok THEN c.value ELSE cellValue
    /\ isEditing' = IF c.awaited THEN FALSE ELSE isEditing
    /\ editValue' = SyncedEditValue(isEditing', cellValue', editValue)
    /\ commits' = Aged(commits \ {c}, isEditing')
    /\ cellEv' = "settle"
    /\ UNCHANGED <<cellType, nCommits, discarded>>
    /\ UNCHANGED besidesCell

\* The parent re-renders the cell with another value (a reload).
ValueChanges(v) ==
    /\ v \in CellValues(cellType)
    /\ v # cellValue
    /\ cellValue' = v
    /\ editValue' = SyncedEditValue(isEditing, v, editValue)
    /\ cellEv' = "value"
    /\ UNCHANGED <<cellType, isEditing, commits, nCommits, discarded>>
    /\ UNCHANGED besidesCell

CellNext ==
    \/ HandleStartEdit
    \/ \E text \in TypedTexts : HandleChange(text)
    \/ KeyEnter
    \/ Blur
    \/ HandleCancel
    \/ \E v \in PickedValues(cellType) : HandlePick(v)
    \/ \E c \in commits : \E ok \in BOOLEAN : CommitSettles(c, ok)
    \/ \E v \in CellValues(cellType) : ValueChanges(v)

(***************************************************************************)
(* The navigation shell.                                                   *)
(***************************************************************************)
ConnectorIds == {"hubspot", "salesforce"}
ModelIds == {"genericContact", "crmOpportunity"}
Modes == {"server", "client"}

\* null as selectedConnectorId; what a match or a lookup yields when there
\* is none; no pending navigation.
NoConnector == "<null>"
NoSegment == "<no match>"
NoPush == [path |-> << >>, cause |-> "none"]

\* The connector segments of the explored URLs: the known ids, the text a
\* template literal makes of null, and an unknown id.
ConnectorSegments == ConnectorIds \cup {"null", "acme"}

\* The explored URLs.  No segment properly extends "client" or "server",
\* so that a string prefix test on the path is a test of its first segment.
NavPaths ==
    {<<"">>} \cup {<<m>> : m \in Modes}
    \cup {<<m, c, "connection">> : m \in Modes, c \in ConnectorSegments}
    \cup {<<m, c, "resources", model>> :
             m \in Modes, c \in ConnectorSegments, model \in ModelIds}

SetMin(S) == CHOOSE x \in S : \A y \in S : x <= y

\* pathname.split("/")
PathParts(path) == <<"">> \o path

\* pathParts.findIndex((part) => part === "client" || part === "server"),
\* counted from 1, 0 if there is none
ModeIndex(parts) ==
    LET found == {i \in 1..Len(parts) : parts[i] \in Modes}
    IN  IF found = {} THEN 0 ELSE SetMin(found)

\* The connectorId the sidebar's effect reads from the path, if any.
ConnectorOfPath(path) ==
    LET parts == PathParts(path)
        connectorIdIndex == ModeIndex(parts)
    IN  IF connectorIdIndex # 0 /\ connectorIdIndex + 1 <= Len(parts)
        THEN parts[connectorIdIndex + 1]
        ELSE NoSegment

\* if (mocked.connectors.list().some((c) => c.id === connectorId))
\*   setSelectedConnectorId(connectorId)
SelectedAfterEffect(selected, path) ==
    IF ConnectorOfPath(path) \in ConnectorIds
    THEN ConnectorOfPath(path)
    ELSE selected

\* pathname.startsWith("/" + mode)
StartsWith(path, mode) == path[1] = mode

\* pathname.includes("/resources/")
IsResourcePage(path) == \E i \in 1..(Len(path) - 1) : path[i] = "resources"

\* {isResourcePage && (<Switch .../>)}
ToggleShown(path) == IsResourcePage(path)

\* pathname.match(/\/resources\/([^/]+)/)?.[1]
ModelMatch(path) ==
    LET found == {i \in 1..(Len(path) - 1) :
                     path[i] = "resources" /\ path[i + 1] # ""}
    IN  IF found = {} THEN NoSegment ELSE path[SetMin(found) + 1]

\* pathname.match(/\/(server|client)\/([^/]+)/)?.[2], as the template
\* literal prints it
ConnectorMatch(path) ==
    LET found == {i \in 1..(Len(path) - 1) :
                     path[i] \in Modes /\ path[i + 1] # ""}
    IN  IF found = {} THEN "undefined" ELSE path[SetMin(found) + 1]

\* A toggle that drops the model of the current path.
ToggledPathLosingModel(path, checked) ==
    <<IF checked THEN "client" ELSE "server", ConnectorMatch(path), "resources",
      "genericContact">>

\* `/${newMode}/${connectorId}/resources/${model}`
ToggledPath(path, checked) ==
    <<IF checked THEN "client" ELSE "server", ConnectorMatch(path), "resources",
      ModelMatch(path)>>

\* baseResourcePath
BaseResourcePath(path, selected) ==
    <<IF StartsWith(path, "server") THEN "server" ELSE "client",
      IF selected = NoConnector THEN "null" ELSE selected, "resources">>

\* The hrefs of the links the sidebar renders.
SidebarLinks(path, selected) ==
    (IF selected # NoConnector
     THEN {<<"server", selected, "connection">>} ELSE {})
    \cup {BaseResourcePath(path, selected) \o <<model>> : model \in ModelIds}

NavEvent(type, cause, connector) ==
    [type |-> type, cause |-> cause, connector |-> connector]

\* The shell as first rendered for the URL `path`.
NavStart(path) ==
    /\ pathname = path
    /\ previous = path
    /\ selectedConnectorId = NoConnector
    /\ isClientSide = TRUE
    /\ pendingPush = NoPush
    /\ navMounted = FALSE
    /\ navEv = NavEvent("init", "none", NoConnector)

NavInit == \E path \in NavPaths : NavStart(path)

\* The effects on [pathname] of the sidebar and of the topbar.
PathnameEffects ==
    /\ selectedConnectorId' = SelectedAfterEffect(selectedConnectorId, pathname')
    /\ isClientSide' = StartsWith(pathname', "client")

\* First commit: both effects run.
NavMount ==
    /\ ~navMounted
    /\ navMounted' = TRUE
    /\ pathname' = pathname
    /\ PathnameEffects
    /\ navEv' = NavEvent("mount", "none", NoConnector)
    /\ UNCHANGED <<previous, pendingPush>>
    /\ UNCHANGED besidesNav

\* router.push(path): the navigation starts; a newer one replaces it.
Push(path, cause) == pendingPush' = [path |-> path, cause |-> cause]

\* A selector that keeps the rendering mode of the current path.
HandleConnectorChangeKeepingMode(connectorId) ==
    /\ navMounted
    /\ selectedConnectorId' = connectorId
    /\ Push(<<IF StartsWith(pathname, "client") THEN "client" ELSE "server",
              connectorId, "connection">>, "choose")
    /\ navEv' = NavEvent("choose", "none", connectorId)
    /\ UNCHANGED <<pathname, previous, isClientSide, navMounted>>
    /\ UNCHANGED besidesNav

\* onSelect of a connector in the sidebar's selector
HandleConnectorChange(connectorId) ==
    /\ navMounted
    /\ selectedConnectorId' = connectorId
    /\ Push(<<"server", connectorId, "connection">>, "choose")
    /\ navEv' = NavEvent("choose", "none", connectorId)
    /\ UNCHANGED <<pathname, previous, isClientSide, navMounted>>
    /\ UNCHANGED besidesNav

\* onCheckedChange of the switch, which is rendered on resource pages and
\* reports the negation of its checked prop.
HandleToggleChange ==
    /\ navMounted
    /\ ToggleShown(pathname)
    /\ IF ModelMatch(pathname) # NoSegment
       THEN Push(ToggledPath(pathname, ~isClientSide), "toggle")
       ELSE UNCHANGED pendingPush
    /\ navEv' = NavEvent("toggle", "none", NoConnector)
    /\ UNCHANGED <<pathname, previous, selectedConnectorId, isClientSide,
                   navMounted>>
    /\ UNCHANGED besidesNav

\* Click on a link of the sidebar.
FollowLink(path) ==
    /\ navMounted
    /\ path \in SidebarLinks(pathname, selectedConnectorId)
    /\ Push(path, "link")
    /\ navEv' = NavEvent("link", "none", NoConnector)
    /\ UNCHANGED <<pathname, previous, selectedConnectorId, isClientSide,
                   navMounted>>
    /\ UNCHANGED besidesNav

\* The browser's back button.
Back ==
    /\ navMounted
    /\ previous # pathname
    /\ Push(previous, "back")
    /\ navEv' = NavEvent("back", "none", NoConnector)
    /\ UNCHANGED <<pathname, previous, selectedConnectorId, isClientSide,
                   navMounted>>
    /\ UNCHANGED besidesNav

\* The router commits the pending navigation: the shell re-renders with the
\* new pathname and, if it changed, the effects on [pathname] run.
NavCommit ==
    /\ pendingPush # NoPush
    /\ pathname' = pendingPush.path
    /\ previous' = pathname
    /\ pendingPush' = NoPush
    /\ IF pathname' # pathname
       THEN PathnameEffects
       ELSE UNCHANGED <<selectedConnectorId, isClientSide>>
    /\ navEv' = NavEvent("commit", pendingPush.cause, NoConnector)
    /\ UNCHANGED navMounted
    /\ UNCHANGED besidesNav

NavNext ==
    \/ NavMount
    \/ \E connectorId \in ConnectorIds : HandleConnectorChange(connectorId)
    \/ HandleToggleChange
    \/ \E path \in NavPaths : FollowLink(path)
    \/ Back
    \/ NavCommit

(***************************************************************************)
(* The static registry (lib/mocked-data.tsx).                              *)
(***************************************************************************)
Field(id, name) == [id |-> id, name |-> name]

CONNECTORS ==
    << [id |-> "hubspot", name |-> "Hubspot"],
       [id |-> "salesforce", name |-> "Salesforce"],
       [id |-> "pipedrive", name |-> "Pipedrive"] >>

MODELS ==
    << [id |-> "genericContact", name |-> "Contact",
        fields |-> << Field("firstName", "First Name"),
                      Field("lastName", "Last Name"),
                      Field("email", "Email"),
                      Field("fld_journeybee_lead__c", "Journeybee Lead"),
                      Field("fld_journeybee_partner__c",
                            "Journeybee Partner") >>],
       [id |-> "genericCompany", name |-> "Company",
        fields |-> << Field("name", "Name"),
                      Field("fld_journeybee_lead__c", "Journeybee Lead"),
                      Field("fld_journeybee_partner__c",
                            "Journeybee Partner") >>],
       [id |-> "crmOpportunity", name |-> "Opportunity",
        fields |-> << Field("name", "Name"),
                      Field("amount", "Amount"),
                      Field("stage", "Stage"),
                      Field("pipeline", "Pipeline"),
                      Field("fld_journeybee_lead__c", "Journeybee Lead"),
                      Field("fld_journeybee_partner__c",
                            "Journeybee Partner") >>] >>

DEMO_OWNER_ID == "demo_owner_id"

\* What find() returns when no entry matches.
NotFoundEntry == [id |-> "<undefined>", name |-> "", fields |-> << >>]

\* list.find((entry) => entry.id === id)
Find(list, id) ==
    LET found == {i \in 1..Len(list) : list[i].id = id}
    IN  IF found = {}
        THEN NotFoundEntry
        ELSE [id |-> list[SetMin(found)].id, name |-> list[SetMin(found)].name,
              fields |-> IF "fields" \in DOMAIN list[SetMin(found)]
                         THEN list[SetMin(found)].fields ELSE << >>]

\* mocked.models.get(id), mocked.connectors.get(id)
ModelsGet(id) == Find(MODELS, id)

ConnectorsGet(id) == Find(CONNECTORS, id)

\* modelDetails.fields.map((field) => field.id)
FieldIdsOf(modelDetails) ==
    [i \in 1..Len(modelDetails.fields) |-> modelDetails.fields[i].id]

\* Column descriptors in the order opposite to the field list.
AllColumnsReversed(modelId) ==
    LET fields == ModelsGet(modelId).fields
    IN  [i \in 1..Len(fields) |->
            [id |-> fields[Len(fields) + 1 - i].id,
             header |-> fields[Len(fields) + 1 - i].name, type |-> "text"]]

\* allColumns of the client resource table for its model prop:
\* [...modelDetails.fields].map((field) => ({ id, header, type: "text" }))
AllColumns(modelId) ==
    LET fields == ModelsGet(modelId).fields
    IN  [i \in 1..Len(fields) |->
            [id |-> fields[i].id, header |-> fields[i].name, type |-> "text"]]

\* The header cells of the client resource table: allColumns.map(...)
ClientColumns(modelId) ==
    [i \in 1..Len(AllColumns(modelId)) |-> AllColumns(modelId)[i].id]

\* The header cells of the server resource page:
\* modelDetails.fields.map((field) => <TableHead key={field.id} ...>)
ServerColumns(modelId) == FieldIdsOf(ModelsGet(modelId))

(***************************************************************************)
(* The server side.  morph.ts is evaluated once, when the first page that  *)
(* imports it is loaded.  A page is an async server component: it runs up  *)
(* to the call it awaits, and continues when the service answers.          *)
(***************************************************************************)
ServerPageLimit == 10

Unset == "<unset>"
PublicKeys == {Unset, "", "pk"}
SecretKeys == {Unset, "", "sk"}

\* !process.env.X is false
EnvSet(v) == v # Unset /\ v # ""

Unloaded ==
    [state |-> "unloaded", error |-> "", publicKey |-> "", secretKey |-> ""]

\* A module that checks the public key only.
MorphModuleUnchecked(pk, sk) ==
    IF ~EnvSet(pk)
    THEN [Unloaded EXCEPT !.state = "failed",
                          !.error = "NEXT_PUBLIC_MORPH_PUBLIC_KEY is not set"]
    ELSE [Unloaded EXCEPT !.state = "constructed", !.publicKey = pk,
                          !.secretKey = sk]

\* morph.ts: the two checks, then Morph({ publicKey, secretKey })
MorphModule(pk, sk) ==
    IF ~EnvSet(pk)
    THEN [Unloaded EXCEPT !.state = "failed",
                          !.error = "NEXT_PUBLIC_MORPH_PUBLIC_KEY is not set"]
    ELSE IF ~EnvSet(sk)
    THEN [Unloaded EXCEPT !.state = "failed",
                          !.error = "MORPH_SECRET_KEY is not set"]
    ELSE [Unloaded EXCEPT !.state = "constructed", !.publicKey = pk,
                          !.secretKey = sk]

\* The route parameters of the explored requests: a known and an unknown
\* connector id, the known model ids and an unknown one, and the q of the
\* query string (absent, empty, a text).
PageModelIds == {"genericContact", "genericCompany", "crmOpportunity", "deal"}

NoPage ==
    [name |-> "none", connectorId |-> "", modelId |-> "", q |-> NoQ,
     createsField |-> FALSE]

\* The explored requests.  The connection page exists in two versions, of
\* which one creates a custom field once the connection is authorized.
PageRequests ==
    {[NoPage EXCEPT !.name = "ServerResourcePage", !.connectorId = c,
                    !.modelId = m, !.q = q] :
        c \in {"hubspot", "acme"}, m \in PageModelIds, q \in {NoQ, "", "a"}}
    \cup {[NoPage EXCEPT !.name = "ClientResourcePage", !.connectorId = c,
                         !.modelId = m] :
             c \in {"hubspot", "acme"}, m \in PageModelIds}
    \cup {[NoPage EXCEPT !.name = "ConnectionPage", !.connectorId = c,
                         !.createsField = b] :
             c \in {"hubspot", "acme"}, b \in BOOLEAN}

\* The operations a session is created for: model::operation.
REQUIRED_OPERATIONS(fieldWrite) ==
    {<<m, op>> : m \in {"genericContact", "genericCompany", "crmOpportunity"},
                 op \in {"create", "update", "retrieve", "list", "fieldRead"}
                        \cup (IF fieldWrite THEN {"fieldWrite"} ELSE {})}

\* A call of the service's API.
NoCall ==
    [api |-> "none", connectorId |-> "", ownerId |-> "", operations |-> {},
     model |-> "", q |-> NoQ, limit |-> 0, fields |-> << >>,
     cursor |-> Undefined]

\* morph.sessions().create({ connection: { connectorId, ownerId,
\* operations } })
SessionCall(connectorId, operations) ==
    [NoCall EXCEPT !.api = "sessions.create", !.connectorId = connectorId,
                   !.ownerId = DEMO_OWNER_ID, !.operations = operations]

\* A list call that leaves out the q of the query string.
ServerListCallWithoutQ(p) ==
    [NoCall EXCEPT !.api = "resources.list", !.connectorId = p.connectorId,
                   !.ownerId = DEMO_OWNER_ID, !.model = p.modelId,
                   !.limit = ServerPageLimit,
                   !.fields = FieldIdsOf(ModelsGet(p.modelId))]

\* morph.connections({ ownerId, connectorId }).resources(modelId)
\*      .list({ q, limit: 10, fields })
ServerListCall(p) ==
    [NoCall EXCEPT !.api = "resources.list", !.connectorId = p.connectorId,
                   !.ownerId = DEMO_OWNER_ID, !.model = p.modelId, !.q = p.q,
                   !.limit = ServerPageLimit,
                   !.fields = FieldIdsOf(ModelsGet(p.modelId))]

\* How a call ends, the session token a session call returns, and the
\* record ids a list call returns.
CallResults == {"ok", "error", "throw"}
ListedIds == {<< >>, <<1>>, <<1, 2>>}

\* A page that renders with whatever an error result carries.
CallFailedOnlyByThrow(result) == result = "throw"

\* The awaited call rejected, or `if (error) throw new Error(...)`
CallFailed(result) == result # "ok"

\* data.sessionToken of a result
SessionTokenOf(result) == IF result = "ok" THEN "tok" ELSE "<undefined>"

NothingRendered ==
    [widget |-> "none", model |-> "", columns |-> << >>, rows |-> << >>,
     sessionToken |-> ""]

PageEvent(type, result) == [type |-> type, result |-> result]

\* The server process as started with two keys, before any request.
PageStart(pk, sk) ==
    /\ publicKey = pk
    /\ secretKey = sk
    /\ morph = Unloaded
    /\ page = NoPage
    /\ pagePc = "idle"
    /\ calls = << >>
    /\ outcome = "none"
    /\ rendered = NothingRendered
    /\ pageEv = PageEvent("init", "none")

\* The first import of morph.ts evaluates the module.
ModuleInit ==
    /\ morph.state = "unloaded"
    /\ morph' = MorphModule(publicKey, secretKey)
    /\ pageEv' = PageEvent("moduleInit", "none")
    /\ UNCHANGED <<publicKey, secretKey, page, pagePc, calls, outcome,
                   rendered>>
    /\ UNCHANGED besidesPage

\* catch (error) { notFound() }
NotFound ==
    /\ pagePc' = "done"
    /\ outcome' = "notFound"
    /\ rendered' = NothingRendered

\* A request for a page whose module cannot be loaded because morph.ts
\* threw: the error is raised outside the page's try block.
ImportFails(p) ==
    /\ morph.state = "failed"
    /\ pagePc \in {"idle", "done"}
    /\ page' = p
    /\ pagePc' = "done"
    /\ calls' = << >>
    /\ outcome' = "error"
    /\ rendered' = NothingRendered
    /\ pageEv' = PageEvent("request", "none")
    /\ UNCHANGED <<publicKey, secretKey, morph>>
    /\ UNCHANGED besidesPage

\* A page starts rendering request p.
PageBegins(p, name) ==
    /\ morph.state = "constructed"
    /\ pagePc \in {"idle", "done"}
    /\ p.name = name
    /\ page' = p
    /\ pageEv' = PageEvent("request", "none")

\* ServerResourcePage up to its await: the model lookup, then the list call.
ServerResourcePage(p) ==
    /\ PageBegins(p, "ServerResourcePage")
    /\ IF ModelsGet(p.modelId) = NotFoundEntry
       THEN NotFound /\ calls' = << >>
       ELSE /\ calls' = <<ServerListCall(p)>>
            /\ pagePc' = "resources.list"
            /\ outcome' = "none"
            /\ rendered' = NothingRendered
    /\ UNCHANGED <<publicKey, secretKey, morph>>
    /\ UNCHANGED besidesPage

\* ServerResourcePage after its await: the static table, or not found.
ServerResourcePageListed(result, data) ==
    /\ page.name = "ServerResourcePage"
    /\ pagePc = "resources.list"
    /\ IF CallFailed(result)
       THEN NotFound
       ELSE /\ pagePc' = "done"
            /\ outcome' = "rendered"
            /\ rendered' = [NothingRendered EXCEPT
                               !.widget = "serverTable",
                               !.model = page.modelId,
                               !.columns = ServerColumns(page.modelId),
                               !.rows = data]
    /\ pageEv' = PageEvent("resources.list", result)
    /\ UNCHANGED <<publicKey, secretKey, morph, page, calls>>
    /\ UNCHANGED besidesPage

\* ClientResourcePage up to its await: the model lookup, then the session.
ClientResourcePage(p) ==
    /\ PageBegins(p, "ClientResourcePage")
    /\ IF ModelsGet(p.modelId) = NotFoundEntry
       THEN NotFound /\ calls' = << >>
       ELSE /\ calls' = <<SessionCall(p.connectorId, {})>>
            /\ pagePc' = "sessions.create"
            /\ outcome' = "none"
            /\ rendered' = NothingRendered
    /\ UNCHANGED <<publicKey, secretKey, morph>>
    /\ UNCHANGED besidesPage

\* ClientResourcePage after its await: the client resource table with the
\* session token, or not found.
ClientResourcePageSession(result) ==
    /\ page.name = "ClientResourcePage"
    /\ pagePc = "sessions.create"
    /\ IF CallFailed(result)
       THEN NotFound
       ELSE /\ pagePc' = "done"
            /\ outcome' = "rendered"
            /\ rendered' = [NothingRendered EXCEPT
                               !.widget = "clientTable",
                               !.model = page.modelId,
                               !.columns = ClientColumns(page.modelId),
                               !.sessionToken = SessionTokenOf(result)]
    /\ pageEv' = PageEvent("sessions.create", result)
    /\ UNCHANGED <<publicKey, secretKey, morph, page, calls>>
    /\ UNCHANGED besidesPage

\* The client resource table renders again with the records it has loaded.
ClientTableRenders(data) ==
    /\ pagePc = "done"
    /\ rendered.widget = "clientTable"
    /\ data # rendered.rows
    /\ rendered' = [rendered EXCEPT !.columns = ClientColumns(rendered.model),
                                    !.rows = data]
    /\ pageEv' = PageEvent("tableRender", "none")
    /\ UNCHANGED <<publicKey, secretKey, morph, page, pagePc, calls, outcome>>
    /\ UNCHANGED besidesPage

\* ConnectionPage up to its await: the session with the required operations.
ConnectionPage(p) ==
    /\ PageBegins(p, "ConnectionPage")
    /\ calls' = <<SessionCall(p.connectorId,
                              REQUIRED_OPERATIONS(p.createsField))>>
    /\ pagePc' = "sessions.create"
    /\ outcome' = "none"
    /\ rendered' = NothingRendered
    /\ UNCHANGED <<publicKey, secretKey, morph>>
    /\ UNCHANGED besidesPage

\* ConnectionPage after its await: the connector lookup, then the Connect
\* widget with the session token, or not found.
ConnectionPageSession(result) ==
    /\ page.name = "ConnectionPage"
    /\ pagePc = "sessions.create"
    /\ IF CallFailed(result)
          \/ ConnectorsGet(page.connectorId) = NotFoundEntry
       THEN NotFound
       ELSE /\ pagePc' = "done"
            /\ outcome' = "rendered"
            /\ rendered' = [NothingRendered EXCEPT
                               !.widget = "connect",
                               !.sessionToken = SessionTokenOf(result)]
    /\ pageEv' = PageEvent("sessions.create", result)
    /\ UNCHANGED <<publicKey, secretKey, morph, page, calls>>
    /\ UNCHANGED besidesPage

PageNext ==
    \/ ModuleInit
    \/ \E p \in PageRequests : ImportFails(p)
    \/ \E p \in PageRequests : ServerResourcePage(p)
    \/ \E result \in CallResults : \E data \in ListedIds :
           ServerResourcePageListed(result, data)
    \/ \E p \in PageRequests : ClientResourcePage(p)
    \/ \E result \in CallResults : ClientResourcePageSession(result)
    \/ \E data \in ListedIds : ClientTableRenders(data)
    \/ \E p \in PageRequests : ConnectionPage(p)
    \/ \E result \in CallResults : ConnectionPageSession(result)

(***************************************************************************)
(* The `authorized` callback of the connection page: a server action the   *)
(* Connect widget invokes when the connection is authorized.  Each         *)
(* invocation runs up to the call it awaits and continues when the service *)
(* answers; invocations of several widgets may overlap.                    *)
(***************************************************************************)
MaxCallbacks == 2

Callbacks == 1..MaxCallbacks

CUSTOM_FIELD_CONFIG ==
    [key |-> "custom_field_1", name |-> "My Custom Field", type |-> "text"]

\* A custom field as listFields returns it.
RemoteField(key) == [remote |-> [key |-> key]]

\* fieldsData.find((field) => field.remote.key === CUSTOM_FIELD_CONFIG.key)
ExistingField(fieldsData) ==
    \E field \in fieldsData : field.remote.key = CUSTOM_FIELD_CONFIG.key

IdleCallback ==
    [pc |-> "idle", listed |-> "none", fieldsData |-> {}, invoked |-> FALSE]

\* No callback invoked yet, on a connection holding the custom fields `keys`.
CallbackStart(keys) ==
    /\ customFields = {RemoteField(k) : k \in keys}
    /\ callbacks = [i \in Callbacks |-> IdleCallback]

\* The widget of a rendered connection page invokes authorized(): the
\* callback calls listFields({ filters: { isCustom: true } }) and awaits.
Authorized(i) ==
    /\ outcome = "rendered"
    /\ rendered.widget = "connect"
    /\ page.createsField
    /\ callbacks[i].pc = "idle"
    /\ callbacks' = [callbacks EXCEPT ![i].pc = "listFields"]
    /\ UNCHANGED <<customFields, pageVars>>
    /\ UNCHANGED besidesCallbacks

\* listFields settles: `if (fieldsError) throw`, else the lookup of the
\* configured key and, if it is not found, the createField call.
FieldsListed(i, result) ==
    /\ callbacks[i].pc = "listFields"
    /\ callbacks' =
          [callbacks EXCEPT ![i] =
              IF CallFailed(result)
              THEN [@ EXCEPT !.pc = "failed", !.listed = result]
              ELSE IF ExistingField(customFields)
              THEN [@ EXCEPT !.pc = "done", !.listed = result,
                             !.fieldsData = customFields]
              ELSE [@ EXCEPT !.pc = "createField", !.listed = result,
                             !.fieldsData = customFields,
                             !.invoked = TRUE]]
    /\ UNCHANGED <<customFields, pageVars>>
    /\ UNCHANGED besidesCallbacks

\* createField(CUSTOM_FIELD_CONFIG) settles: `if (newFieldError) throw`.
\* A created field is visible to the listFields calls that follow.
FieldCreated(i, result) ==
    /\ callbacks[i].pc = "createField"
    /\ IF CallFailed(result)
       THEN /\ callbacks' = [callbacks EXCEPT ![i].pc = "failed"]
            /\ UNCHANGED customFields
       ELSE /\ callbacks' = [callbacks EXCEPT ![i].pc = "done"]
            /\ customFields' =
                  customFields \cup {RemoteField(CUSTOM_FIELD_CONFIG.key)}
    /\ UNCHANGED pageVars
    /\ UNCHANGED besidesCallbacks

CallbackNext ==
    \/ ModuleInit
    \/ \E p \in PageRequests : ConnectionPage(p)
    \/ \E result \in CallResults : ConnectionPageSession(result)
    \/ \E i \in Callbacks : Authorized(i)
    \/ \E i \in Callbacks : \E result \in CallResults : FieldsListed(i, result)
    \/ \E i \in Callbacks : \E result \in CallResults : FieldCreated(i, result)

Init ==
    /\ TableInit /\ ColumnsInit /\ CellStart("text", JsWord)
    /\ NavStart(<<"">>) /\ PageStart("pk", "sk") /\ CallbackStart({})

NextTokens ==
    {Null, Undefined} \cup
    {[q |-> QParam(t), page |-> p] : t \in SearchTexts, p \in 1..2}

Next ==
    \/ Mount
    \/ \E v \in SearchTexts : TypeSearch(v)
    \/ DebounceFire
    \/ HandleLoadMore
    \/ \E r \in inflight : \E next \in NextTokens : ListOk(r, next)
    \/ \E r \in inflight : ListError(r)
    \/ \E r \in inflight : ListThrow(r)
    \/ \E i \in 1..Len(rows) : \E f \in FieldIds : \E v \in EditValues :
           HandleCellUpdate(i, f, v)
    \/ \E u \in inflight : UpdateOk(u)
    \/ \E u \in inflight : UpdateError(u)
    \/ \E u \in inflight : UpdateThrow(u)

Spec == Init /\ [][Next]_vars

\* resources.list settles for some request in flight: it resolves with data,
\* resolves with an error, or rejects.
ListOutcome ==
    \E r \in inflight :
       \/ \E next \in NextTokens : ListOk(r, next)
       \/ ListError(r)
       \/ ListThrow(r)

\* The table with a service that answers: a list request in flight does not
\* stay without an outcome forever.  Explored with at most MaxFairTypes
\* keystrokes.
FairNext ==
    \/ Mount
    \/ \E v \in SearchTexts : typed < MaxFairTypes /\ TypeSearch(v)
    \/ DebounceFire
    \/ HandleLoadMore
    \/ \E r \in inflight : \E next \in NextTokens : ListOk(r, next)
    \/ \E r \in inflight : ListError(r)
    \/ \E r \in inflight : ListThrow(r)
    \/ \E i \in 1..Len(rows) : \E f \in FieldIds : \E v \in EditValues :
           HandleCellUpdate(i, f, v)
    \/ \E u \in inflight : UpdateOk(u)
    \/ \E u \in inflight : UpdateError(u)
    \/ \E u \in inflight : UpdateThrow(u)

FairSpec == Init /\ [][FairNext]_vars /\ WF_vars(ListOutcome)

\* The column descriptors, beside a table, a cell and a shell at rest.
ColumnsSpecInit == Init /\ sessionToken = "tok"

ColumnsSpec == ColumnsSpecInit /\ [][ColumnsNext]_allVars

\* A cell of any type and value, beside a table and a shell at rest.
CellSpecInit ==
    /\ TableInit /\ sessionToken = "tok" /\ ColumnsInit /\ CellInit
    /\ NavStart(<<"">>) /\ PageStart("pk", "sk") /\ CallbackStart({})

CellSpec == CellSpecInit /\ [][CellNext]_allVars

\* The shell opened at any URL, beside a table and a cell at rest.
NavSpecInit ==
    /\ TableInit /\ sessionToken = "tok" /\ ColumnsInit
    /\ CellStart("text", JsWord) /\ NavInit /\ PageStart("pk", "sk")
    /\ CallbackStart({})

NavSpec == NavSpecInit /\ [][NavNext]_allVars

\* A server process started with any keys, beside a table, a cell and a
\* shell at rest.
PageSpecInit ==
    /\ TableInit /\ sessionToken = "tok" /\ ColumnsInit
    /\ CellStart("text", JsWord) /\ NavStart(<<"">>)
    /\ \E pk \in PublicKeys : \E sk \in SecretKeys : PageStart(pk, sk)
    /\ CallbackStart({})

PageSpec == PageSpecInit /\ [][PageNext]_allVars

\* A server process with both keys and a connection that holds the
\* configured custom field, another one, both or none, beside a table, a
\* cell and a shell at rest.
CallbackSpecInit ==
    /\ TableInit /\ sessionToken = "tok" /\ ColumnsInit
    /\ CellStart("text", JsWord) /\ NavStart(<<"">>) /\ PageStart("pk", "sk")
    /\ \E keys \in SUBSET {CUSTOM_FIELD_CONFIG.key, "legacy_score"} :
          CallbackStart(keys)

CallbackSpec == CallbackSpecInit /\ [][CallbackNext]_allVars

(***************************************************************************)
(* Properties of the client resource table.                                *)
(***************************************************************************)
LoadMoresInFlight == {r \in inflight : r.kind = "list" /\ r.isLoadMore}

\* The request issued by the task that produced this state.
Issued ==
    {r \in inflight :
        /\ r.kind = ev.req
        /\ r.nth = IF r.kind = "list" THEN nLists ELSE nUpdates}

\* C1: every load-more request carries as its cursor the current cursor
\* state, i.e. the `next` token of the most recently applied successful
\* list response.
LoadMoreCarriesCurrentCursor ==
    ev.type = "loadMore" => \A r \in Issued : r.cursor = cursor

\* C2: no list request combines a search term with a cursor token that was
\* returned under a different search term, and the first request after the
\* effective term changes carries no cursor.
CursorNeverCrossesSearchTerms ==
    \A r \in Issued :
       /\ (r.kind = "list" /\ r.cursor # Undefined) => r.cursor.q = r.q
       /\ ev.type = "debounce" => r.cursor = Undefined

\* C3: at most one load-more fetch is in flight at any time, and a load-more
\* fetch is only issued while hasMore is true.
LoadMoreNeverOverlaps ==
    /\ Cardinality(LoadMoresInFlight) <= 1
    /\ ev.type = "loadMore" => hasMore

\* C4: applying a successful load-more response leaves the previous rows as
\* an unchanged prefix and appends the response's records after them.
LoadMoreAppends ==
    [][(ev'.type = "listOk" /\ ev'.isLoadMore)
          => rows' = rows \o ev'.data]_vars

LoadMoreAppended ==
    /\ ev.type = "listOk"
    /\ ev.isLoadMore
    /\ Len(ev.data) > 0
    /\ Len(rows) > Len(ev.data)

\* C5: no two rows of the row list have the same id (the service returns
\* distinct ids across the pages of one search).
RowIdsUnique ==
    \A i, j \in 1..Len(rows) : rows[i].id = rows[j].id => i = j

\* C6: after a successful list response whose `next` is null or absent is
\* applied, hasMore is false, so that no load-more fetch can be issued.
LastPageClearsHasMore ==
    (ev.type = "listOk" /\ ev.next \in {Null, Undefined}) => ~hasMore

\* C7: right after a cell update is invoked, the displayed value of that row
\* and field is the new value, and one update request for it was issued.
OptimisticValueDisplayed ==
    ev.type = "edit" =>
       /\ Cardinality(Issued) = 1
       /\ \A u \in Issued : \A i \in 1..Len(rows) :
             rows[i].id = u.rowId
                => DisplayedValue(rows[i], u.field) = u.value

\* C8: whenever the remote update fails, by an error result or by throwing,
\* a fresh first-page list request is issued and an error toast is shown.
UpdateFailureReloads ==
    ev.type \in {"updateError", "updateThrow"} =>
       /\ ev.toast # Absent
       /\ ev.req = "list"
       /\ \A r \in Issued : ~r.isLoadMore /\ r.cursor = Undefined

\* C9: once the reload that follows a failed update has succeeded, with no
\* other edit in between, the edited row is still listed and displays the
\* value it had before the edit.
FailedUpdateRestoresRow ==
    [][\A r \in inflight \ inflight' :
          (ev'.type = "listOk" /\ r.cause # 0 /\ r.cause = nUpdates)
          => \E j \in 1..Len(rows') :
                /\ rows'[j].id = r.rowId
                /\ DisplayedValue(rows'[j], r.field)
                      = DisplayedValue(r.preRow, r.field)]_vars

\* C10: after a remote update succeeds, the edited row is its pre-edit
\* record with only fields[fieldId] replaced, and all other rows, their
\* number and their order are unchanged.
SuccessfulUpdateFrame ==
    [][\A u \in inflight \ inflight' :
          ev'.type = "updateOk"
          => rows' = [i \in 1..Len(rows) |->
                        IF rows[i].id = u.rowId
                        THEN [u.preRow EXCEPT !.fields[u.field] = u.value]
                        ELSE rows[i]]]_vars

\* C12: in every reachable state in which the session token is empty, the
\* table has issued no list request and no update request.
NoSessionNoRequests ==
    sessionToken = "" => nLists = 0 /\ nUpdates = 0 /\ inflight = {}

\* Without a session the component has mounted and its debounce timer has
\* fired.
NoSessionSettled ==
    sessionToken = "" /\ mounted /\ ev.type = "debounce"

\* A list request issued by the load effect (not a load-more, not the
\* reload after a failed update).
IsInitialLoad(r) == r.kind = "list" /\ ~r.isLoadMore /\ r.cause = 0

\* The load effect empties the row list, clears the cursor and requests the
\* first page with limit 20.
InitialLoadResets ==
    (ev'.type \in {"mount", "debounce"} /\ ev'.req = "list")
       => /\ rows' = << >>
          /\ cursor' = Undefined
          /\ \A r \in inflight' \ inflight :
                r.limit = 20 /\ r.cursor = Undefined /\ ~r.isLoadMore

\* The task that handles the failure shows one error notification and issues
\* no request, and right after it a list request is only issued when the
\* effective search term changes or the user clicks Load More.
InitialLoadNotRetried ==
    /\ ev'.toast = "Error loading resources"
    /\ ev'.req = "none"
    /\ nLists' = nLists

NoRetryAfterFailure ==
    (ev.type = "listFail" /\ inflight = {} /\ nLists' # nLists)
       => debouncedSearch' # debouncedSearch \/ ev'.type = "loadMore"

\* C13: an initial load first empties the row list and clears the cursor and
\* then requests the first page with limit 20; if that request fails (error
\* result or exception) while no other fetch is in flight, the row list is
\* empty afterwards, one error notification is shown, and no further list
\* request is issued until the session token or the effective search term
\* changes or the user acts.
InitialLoadFailureLeavesRowsEmpty ==
    [][/\ InitialLoadResets
       /\ \A r \in inflight \ inflight' :
             (ev'.type = "listFail" /\ IsInitialLoad(r) /\ inflight' = {})
                => rows' = << >> /\ InitialLoadNotRetried
       /\ NoRetryAfterFailure]_vars

\* C13 amended: as C13, for an initial load during which no other fetch was
\* in flight at any time: none when it was issued, none issued after it, and
\* none when it fails.
LoneInitialLoadFailureLeavesRowsEmpty ==
    [][/\ InitialLoadResets
       /\ \A r \in inflight \ inflight' :
             (/\ ev'.type = "listFail" /\ IsInitialLoad(r) /\ inflight' = {}
              /\ r.alone /\ r.nth = nLists)
                => rows' = << >> /\ InitialLoadNotRetried
       /\ NoRetryAfterFailure]_vars

\* After rows were loaded and the search term changed, the initial load for
\* the new term has failed with nothing else in flight.
InitialLoadFailed ==
    /\ ev.type = "listFail" /\ ~ev.isLoadMore
    /\ inflight = {} /\ rows = << >>
    /\ nLists = 2 /\ debouncedSearch = "a"

\* C14: applying a failed list response (error result or exception, for an
\* initial load, a load-more or an update-failure reload) leaves the row
\* list, the cursor and hasMore exactly as they were just before.
FailedListIsFrame ==
    [][ev'.type = "listFail"
          => rows' = rows /\ cursor' = cursor /\ hasMore' = hasMore]_vars

\* A load-more has failed while rows and a cursor token were held.
FailedListWithRows ==
    /\ ev.type = "listFail" /\ ev.isLoadMore
    /\ Len(rows) > 0 /\ cursor # Undefined

\* The task that fires the debounce timer after at least one keystroke
\* issues exactly one list request, for the last typed text.
OneRequestForLastText ==
    /\ nLists' = nLists + 1
    /\ \A r \in inflight' \ inflight :
          r.kind = "list" /\ r.q = QParam(search) /\ r.term = search
    /\ Cardinality(inflight' \ inflight) = 1

\* C11: with a valid session, a burst of keystrokes in the search box, each
\* within the debounce window of the previous one, issues no list request
\* during the burst, and once the window passes without a keystroke exactly
\* one list request is issued, carrying the last typed text as its term.
BurstIssuesOneRequest ==
    [][sessionToken # "" =>
          /\ ev'.type = "type" => nLists' = nLists /\ inflight' = inflight
          /\ (ev'.type = "debounce" /\ typed > 0) => OneRequestForLastText]_vars

\* C11 amended: as C11, except that when the window passes the one list
\* request is issued only if the last typed text differs from the effective
\* search term; if it is the same, no list request is issued.
BurstIssuesOneRequestOnChange ==
    [][sessionToken # "" =>
          /\ ev'.type = "type" => nLists' = nLists /\ inflight' = inflight
          /\ (ev'.type = "debounce" /\ typed > 0) =>
                IF search # debouncedSearch
                THEN OneRequestForLastText
                ELSE nLists' = nLists /\ inflight' = inflight]_vars

\* The timer has fired after one burst of three keystrokes (the only list
\* request before it is the one of the mount) and the load for the last
\* typed text is in flight.
BurstSettled ==
    /\ ev.type = "debounce" /\ ev.req = "list"
    /\ typed = 3 /\ nLists = 2
    /\ \E r \in Issued : r.q = QParam(search)

\* The types inferred from the values the latest batch holds for field f.
TypesInLatestBatch(f) ==
    {InferType("text", fetched[Len(fetched)][f])} \ {"text"}

\* C15: after a successful fetch whose batch contains a numeric, boolean or
\* valid-date-string value for a field, the cells of that field's column are
\* rendered with the corresponding inferred type and open the matching edit
\* widget; a column stays of type text only while no such value has been
\* observed.
ColumnsFollowData ==
    fetched # << >> =>
       \A f \in ColumnFieldIds :
          /\ \A t \in TypesInLatestBatch(f) :
                allColumns[f] = t /\ EditWidget(allColumns[f]) = EditWidget(t)
          /\ allColumns[f] = "text" =>
                \A i \in 1..Len(fetched) :
                   InferType("text", fetched[i][f]) = "text"

\* C16: for every cell type, once the cell has invoked the commit callback
\* the cell is back in display state before the callback's remote update
\* completes: it is never still in editing state while the commit is
\* pending.
CellLeavesEditingOnCommit == \A c \in commits : ~c.open

\* C17: in a free-text cell in editing state, Escape moves the cell to
\* display state without invoking the commit callback, and the typed text is
\* discarded: the next time the cell enters editing state its edit value
\* equals the current value prop.
EscapeDiscardsEdit ==
    [][/\ cellEv' = "escape" =>
             ~isEditing' /\ nCommits' = nCommits
             /\ {c.n : c \in commits'} = {c.n : c \in commits}
       /\ cellEv' = "start" => isEditing' /\ editValue' = cellValue'
      ]_allVars

\* A free-text cell was re-opened after an Escape that threw away a typed
\* text other than the value.
ReopenedAfterEscape ==
    /\ cellEv = "start" /\ IsFreeText(cellType)
    /\ discarded # NoValue /\ discarded # cellValue
    /\ editValue = cellValue

\* C18: after any sequence of navigations, if the current URL path has no
\* segment after `client` or `server`, or that segment is not a known
\* connector id, the selected connector is none; otherwise it is the
\* connector named by that segment.
SelectionFollowsPath ==
    (navMounted /\ pendingPush = NoPush) =>
       selectedConnectorId =
          IF ConnectorOfPath(pathname) \in ConnectorIds
          THEN ConnectorOfPath(pathname)
          ELSE NoConnector

\* A path of the form /{mode}/{connectorId}/resources/{modelId}.
IsResourceForm(path) ==
    /\ Len(path) = 4
    /\ path[1] \in Modes
    /\ path[3] = "resources"

\* The segments of a path that are followed by a slash.
Segments(path) == {path[i] : i \in 1..(Len(path) - 1)}

OtherMode(mode) == IF mode = "client" THEN "server" ELSE "client"

\* The path the toggle navigates to when flipped on `path`, once the
\* topbar's effect has set the switch for that path.
Flipped(path) == ToggledPath(path, ~StartsWith(path, "client"))

ChoosingConnectorNavigates ==
    [][/\ navEv'.type = "choose" =>
             /\ selectedConnectorId' = navEv'.connector
             /\ pendingPush'.path = <<"server", navEv'.connector, "connection">>
       /\ (navEv'.type = "commit" /\ navEv'.cause = "choose") =>
             /\ pathname' = pendingPush.path
             /\ pathname'[1] = "server" /\ pathname'[3] = "connection"
             /\ selectedConnectorId' = pathname'[2]
             /\ ConnectorOfPath(pathname') = selectedConnectorId'
      ]_allVars

\* The navigation started by choosing a connector on a client-mode path of
\* another connector has been committed.
ConnectorChosen ==
    /\ navEv.type = "commit" /\ navEv.cause = "choose"
    /\ previous[1] = "client" /\ Len(previous) > 1
    /\ previous[2] # pathname[2]
    /\ selectedConnectorId = pathname[2]

\* C30: in every reachable state of the client resource table hasMore =
\* false implies that the cursor is undefined; a successful response sets
\* both from its one `next`, a failed one changes neither, and an initial
\* load resets both.
HasMoreFalseImpliesNoCursor ==
    /\ ~hasMore => cursor = Undefined
    /\ ev.type = "listOk" =>
          /\ cursor = NextCursor(ev.next)
          /\ hasMore = NextHasMore(ev.next)
    /\ (ev.type \in {"mount", "debounce"} /\ ev.req = "list") =>
          cursor = Undefined /\ hasMore

\* A response that ended the pages of the first search was applied after the
\* reset of the load for the second search, whose request is still in
\* flight: hasMore is false, the cursor is undefined.
LastPageAppliedAfterReset ==
    /\ ev.type = "listOk" /\ ev.next = Null
    /\ ~hasMore /\ cursor = Undefined
    /\ debouncedSearch = "a"
    /\ \E r \in inflight : r.kind = "list" /\ r.term = "a"

\* The ids of the records the service returns for search parameter q.
ReturnedFor(q) ==
    UNION {{ServicePages(q)[k][j] : j \in 1..Len(ServicePages(q)[k])} :
              k \in 1..Len(ServicePages(q))}

\* C27: stale responses are applied.  Every successful list response is
\* applied to the row list when it arrives, whatever the effective search
\* term is by then: an initial load's records replace the rows, a
\* load-more's records are appended; and there is a reachable state in which
\* the term changed from A to B while a fetch for A was in flight, its
\* response was applied after the reset or response for B, no fetch is left
\* in flight, and the row list holds records returned for A while the
\* effective term is B (StaleRowsUnderNewTerm).
StaleResponsesApplied ==
    ev.type = "listOk" =>
       IF ev.isLoadMore
       THEN /\ Len(rows) >= Len(ev.data)
            /\ SubSeq(rows, Len(rows) - Len(ev.data) + 1, Len(rows)) = ev.data
       ELSE rows = ev.data

\* With nothing in flight and the effective term "a", the row list holds a
\* record that the service returns only for the empty search.
StaleRowsUnderNewTerm ==
    /\ ev.type = "listOk"
    /\ inflight = {}
    /\ debouncedSearch = "a"
    /\ \E i \in 1..Len(rows) :
          /\ rows[i].id \in ReturnedFor(QParam(""))
          /\ rows[i].id \notin ReturnedFor(QParam("a"))

\* C23: a cell of type boolean shows "Yes" in display state when its value
\* is true and "No" when it is false; entering editing state presents a
\* two-option selector whose selection matches the value, and a reported
\* choice invokes the commit callback once with the boolean true or false
\* (not a string) and returns the cell to display state.
BooleanCellYesNo ==
    [][cellType' = "boolean" =>
          /\ ~isEditing' =>
                DisplayText(cellType', cellValue')
                   = IF cellValue' = JsBoolean THEN "Yes" ELSE "No"
          /\ isEditing' =>
                /\ EditWidget(cellType') = "yes/no select"
                /\ DOMAIN BooleanOptions = {"true", "false"}
          /\ cellEv' = "start" =>
                /\ isEditing'
                /\ BooleanSelected(editValue') = cellValue'.text
                /\ BooleanOptions[BooleanSelected(editValue')]
                      = DisplayText(cellType, cellValue)
          /\ cellEv' = "pick" =>
                /\ nCommits' = nCommits + 1
                /\ {c.n : c \in commits'} = {c.n : c \in commits} \cup {nCommits'}
                /\ \A c \in commits' :
                      c.n = nCommits' => c.value \in {JsBoolean, JsFalse}
                /\ ~isEditing'
      ]_allVars

\* A boolean cell whose value is true is back in display state, showing
\* "Yes", after the option No was chosen; the commit of false is pending.
BooleanPicked ==
    /\ cellType = "boolean" /\ cellEv = "pick"
    /\ cellValue = JsBoolean /\ DisplayText(cellType, cellValue) = "Yes"
    /\ \E c \in commits : c.n = nCommits /\ c.value = JsFalse

\* C28: each edit session of a free-text cell (one display -> editing ->
\* display cycle) invokes the commit callback at most once, for every order
\* of Enter and blur events.  The commits invoked in the running session are
\* the pending ones that are open: an awaited commit that settles ends the
\* session.
CommitsOncePerSession ==
    IsFreeText(cellType) => Cardinality({c \in commits : c.open}) <= 1

\* C29: while a cell is in editing state a change of its value prop does not
\* alter the in-progress edit value; whenever the cell is in display state
\* its edit value equals the current value prop; and entering editing state
\* starts from the current value prop.
EditValueTracksValueOutsideEditing ==
    [][/\ (isEditing /\ isEditing' /\ cellValue' # cellValue) =>
             editValue' = editValue
       /\ ~isEditing' => editValue' = cellValue'
       /\ cellEv' = "start" => isEditing' /\ editValue' = cellValue'
      ]_allVars

\* The value prop of a free-text cell changed while the user was editing it:
\* the typed text is kept and differs from both the old and the new value.
ValueChangedWhileEditing ==
    /\ cellEv = "value" /\ isEditing /\ IsFreeText(cellType)
    /\ editValue \in TypedTexts
    /\ editValue # cellValue

\* rows.map((row) => allColumns.map((column) => <EditableCell
\* value={row.fields[column.id]} type={column.type} />)): the texts of the
\* data rows, one per item, by column.
RenderedRows(columns, items) ==
    [i \in 1..Len(items) |->
        [f \in ColumnFieldIds |-> DisplayText(columns[f], items[i][f])]]

\* The texts that show a value: the value itself, Yes or No for a boolean,
\* the formatted date for a date string.
ShownForms(v) ==
    {v.text}
    \cup (IF v.typeof = "boolean"
          THEN {BooleanOptions[v.text]} ELSE {})
    \cup (IF v.typeof = "string" /\ DateParses(v.text)
          THEN {FormatPP(v.text)} ELSE {})

\* C24: each loaded record is rendered as exactly one data row; in that row
\* every column whose field has a value in the record shows that value, and
\* every column whose field is missing from the record shows the
\* placeholder "-".
RowsShowValues ==
    /\ Len(RenderedRows(allColumns, fetched)) = Len(fetched)
    /\ \A i \in 1..Len(fetched) : \A f \in ColumnFieldIds :
          LET shown == RenderedRows(allColumns, fetched)[i][f]
          IN  IF fetched[i][f] = JsUndefined
              THEN shown = "-"
              ELSE shown \in ShownForms(fetched[i][f])

(***************************************************************************)
(* Properties of the server side.                                          *)
(***************************************************************************)
\* C21: the server resource page issues exactly one list request per
\* render, with limit 10, the model's field ids, the q of the query string
\* as given, and no cursor; if the model id is unknown no list request is
\* issued and the outcome is a not-found response; if the list request
\* returns an error or throws, the outcome is a not-found response; and a
\* not-found response renders no table.
ServerPageListsOnce ==
    (page.name = "ServerResourcePage" /\ morph.state = "constructed") =>
       /\ IF ModelsGet(page.modelId) = NotFoundEntry
          THEN calls = << >> /\ outcome = "notFound"
          ELSE /\ Len(calls) = 1
               /\ calls[1].api = "resources.list"
               /\ calls[1].limit = 10
               /\ calls[1].fields = FieldIdsOf(ModelsGet(page.modelId))
               /\ calls[1].q = page.q
               /\ calls[1].cursor = Undefined
       /\ (pageEv.type = "resources.list" /\ pageEv.result \in {"error", "throw"})
             => outcome = "notFound"
       /\ outcome = "notFound" => rendered.widget = "none"
       /\ pagePc = "done" => outcome \in {"notFound", "rendered"}

\* The list request of a known model, with a search text, returned an error.
ServerListFailed ==
    /\ page.name = "ServerResourcePage" /\ page.q = "a"
    /\ pageEv = PageEvent("resources.list", "error")
    /\ outcome = "notFound" /\ Len(calls) = 1

\* C22: on the client resource page and on the connection pages, if session
\* creation returns an error the outcome is a not-found response, and the
\* client resource table or the Connect widget is rendered only with the
\* token of a session that was created.
SessionErrorIsNotFound ==
    page.name \in {"ClientResourcePage", "ConnectionPage"} =>
       /\ pageEv = PageEvent("sessions.create", "error") =>
             /\ outcome = "notFound"
             /\ rendered.widget = "none" /\ rendered.sessionToken = ""
       /\ rendered.widget \in {"clientTable", "connect"} =>
             /\ rendered.sessionToken = SessionTokenOf("ok")
             /\ Len(calls) = 1 /\ calls[1].api = "sessions.create"

\* Session creation for the client resource page of a known model returned
\* an error.
ClientSessionFailed ==
    /\ page.name = "ClientResourcePage"
    /\ ModelsGet(page.modelId) # NotFoundEntry
    /\ pageEv = PageEvent("sessions.create", "error")
    /\ outcome = "notFound"

\* C25: for every model of the registry, whenever the client resource table
\* or the server resource page renders its table, the sequence of columns
\* equals the model's static field list in the same order, whatever data
\* was loaded.
ColumnsEqualFieldList ==
    rendered.widget \in {"clientTable", "serverTable"} =>
       /\ \E i \in 1..Len(MODELS) : MODELS[i].id = rendered.model
       /\ \A i \in 1..Len(MODELS) :
             MODELS[i].id = rendered.model =>
                /\ Len(rendered.columns) = Len(MODELS[i].fields)
                /\ \A k \in 1..Len(MODELS[i].fields) :
                      rendered.columns[k] = MODELS[i].fields[k].id

\* The client resource table of the opportunity model has rendered again
\* with loaded records.
ClientColumnsWithData ==
    /\ rendered.widget = "clientTable" /\ rendered.model = "crmOpportunity"
    /\ pageEv.type = "tableRender" /\ Len(rendered.rows) = 2
    /\ Len(rendered.columns) = 6

\* C26: module initialisation of the SDK client fails with an error if the
\* public key is unset or the secret key is unset; the client is constructed
\* only when both are set, with those keys; and no service call is made
\* without a client.
ClientNeedsBothKeys ==
    /\ (morph.state # "unloaded" /\ (publicKey = Unset \/ secretKey = Unset))
          => morph.state = "failed" /\ morph.error # ""
    /\ morph.state = "constructed" =>
          /\ publicKey # Unset /\ secretKey # Unset
          /\ morph.publicKey = publicKey /\ morph.secretKey = secretKey
    /\ morph.state # "constructed" => calls = << >> /\ pagePc # "sessions.create"

\* With the public key set and the secret key unset the module has failed,
\* and a page request has ended in an error.
SecretKeyMissing ==
    /\ publicKey = "pk" /\ secretKey = Unset
    /\ morph.state = "failed" /\ morph.error = "MORPH_SECRET_KEY is not set"
    /\ outcome = "error"

\* C32: every list request the table issues, initial or load-more, carries
\* limit 20 and, as its search term, the effective (debounced) term of the
\* moment it is issued, omitted when that term is empty.
ListRequestCarriesEffectiveTerm ==
    \A r \in Issued :
       r.kind = "list" =>
          /\ r.limit = PageLimit
          /\ r.q = QParam(debouncedSearch)

ListsInFlight == {r \in inflight : r.kind = "list"}

\* C31: every list fetch that receives an outcome (success, error result or
\* exception) leaves loading, loadingMore and initialLoad all false; and when
\* every request gets an outcome, a table with a fetch in flight eventually
\* reaches a state with no fetch in flight and no loading flag set.
FetchesSettle ==
    /\ [](ev.resp = "list" => ~loading /\ ~loadingMore /\ ~initialLoad)
    /\ (ListsInFlight # {})
          ~> (ListsInFlight = {} /\ ~loading /\ ~loadingMore /\ ~initialLoad)

\* A fetch failed while a newer fetch is still in flight: the flags are
\* down although a request is pending.
FetchFailedBesideNewerFetch ==
    /\ ev.type = "listFail"
    /\ ListsInFlight # {}
    /\ ~loading /\ ~loadingMore /\ ~initialLoad

\* C34: in every state of the navigation shell (taken once the mount effects
\* have read the selection from the URL), each resource link of the sidebar
\* targets /{mode}/{c}/resources/{modelId} with c a known connector id and
\* mode "server" exactly when the current path starts with /server; no link
\* has the text of null as its connector segment.
ResourceLinksNameKnownConnector ==
    navMounted =>
       \A link \in SidebarLinks(pathname, selectedConnectorId) :
          (Len(link) = 4 /\ link[3] = "resources") =>
             /\ link[2] \in ConnectorIds
             /\ link[2] # "null"
             /\ link[4] \in ModelIds
             /\ (link[1] = "server") = StartsWith(pathname, "server")
             /\ link[1] \in Modes

(***************************************************************************)
(* Properties of the authorized callback.                                  *)
(***************************************************************************)
\* C33: a callback invokes createField only after its listFields succeeded
\* and returned no field with the configured remote key; and, created
\* fields being visible to later listFields calls, all callbacks together,
\* overlapping ones included, invoke createField at most once.
CreateFieldAtMostOnce ==
    /\ \A i \in Callbacks :
          callbacks[i].invoked =>
             /\ callbacks[i].listed = "ok"
             /\ ~ExistingField(callbacks[i].fieldsData)
    /\ Cardinality({i \in Callbacks : callbacks[i].invoked}) <= 1

====
